---- MODULE Spec2Model ----
(***************************************************************************)
(* A model of the Safera Sense BLE client (src/src/client.py) and of its   *)
(* payload codec (src/src/models.py).                                      *)
(*                                                                         *)
(* Spec      : one SaferaSenseClient session used by concurrently running  *)
(*             asyncio tasks.  Every action is one atomic segment of a     *)
(*             coroutine (the code between two awaits) or one step of the  *)
(*             environment (the radio link, the peripheral's pushes).      *)
(*             SpecNotify, SpecCommands, SpecBoost, SpecFan, SpecWrites,   *)
(*             SpecFrames, SpecDcvFetch and SpecDay are that session with  *)
(*             the callers of one group of methods.                        *)
(* SpecCodec : SaferaSensorData.from_bytes applied to bounded payloads.    *)
(*             SpecEventLog, SpecDcv and SpecDayStatistics do the same for *)
(*             the decoders of client.py.                                  *)
(*                                                                         *)
(* Python's payload[i] is p[i + 1] here: sequences are 1-indexed.          *)
(***************************************************************************)
EXTENDS Integers, Sequences, FiniteSets, TLC

VARIABLES
    client,      \* self.client: 0 is None, otherwise a BleakClient object
    linkUp,      \* linkUp[c]: BleakClient c's is_connected
    notifying,   \* notifying[c]: _subscribed_handler is registered on c
    callback,    \* self._callback: "none" is None, otherwise an observer
    registered,  \* registered[o]: the object observer o's subscribe call
                 \*   started notifications on (0: none); history only
    lastCall,    \* the lifecycle method called most recently; history only
    inbox,       \* inbox[o]: what the latest frame handed to observer o
    handler,     \* the latest run of _subscribed_handler: the length of
                 \*   its frame and the exception that left it, if any
    pc,          \* pc[t]: where task t's coroutine is suspended
    op,          \* op[t]: the client method task t is running
    arg,         \* arg[t]: that call's argument
    cl,          \* cl[t]: the BleakClient object of t's pending transport call
    trace,       \* trace[t]: transport calls and sleeps of t's current call
    result,      \* result[t]: how t's call ended
    payload,     \* SpecCodec: the buffer handed to from_bytes
    decoded      \* SpecCodec: what from_bytes gave for it

sessionVars == <<client, linkUp, notifying, callback, registered, lastCall,
                 inbox, handler>>
taskVars == <<pc, op, arg, cl, trace, result>>
codecVars == <<payload, decoded>>
vars == <<client, linkUp, notifying, callback, registered, lastCall, inbox,
          handler, pc, op, arg, cl, trace, result, payload, decoded>>

----------------------------------------------------------------------------
(* Bounds of the model.                                                    *)

NumTasks == 2        \* caller tasks sharing the session
MaxClients == 2      \* BleakClient objects alive at the same time
MaxSensorLen == 65   \* longest sensor payload drawn in SpecCodec
MaxEventLogLen == 18 \* longest event-log buffer drawn in SpecEventLog
MaxDcvLen == 36      \* longest DCV buffer drawn in SpecDcv
MaxDayStatisticsLen == 17  \* longest day-statistics buffer drawn

Tasks == 1..NumTasks
ClientIds == 1..MaxClients
Observers == {"A", "B"}

----------------------------------------------------------------------------
(* Payload codec: models.py                                                *)

MinSensorLen == 54

u8(p, offset) == p[offset + 1]
u16(p, offset) == p[offset + 1] + 256 * p[offset + 2]
\* A 32-bit little-endian field as <<low word, high word>>: the value itself
\* is outside the integers the checker computes with.
u32(p, offset) == <<u16(p, offset), u16(p, offset + 2)>>
s8(p, offset) == IF p[offset + 1] >= 128 THEN p[offset + 1] - 256
                 ELSE p[offset + 1]
s16(p, offset) == IF u16(p, offset) >= 32768 THEN u16(p, offset) - 65536
                  ELSE u16(p, offset)

\* An optional field: None, or the value it holds.
None == <<>>
Some(x) == <<x>>

\* A fan level that snaps every raw byte to the nearest level.
FanSpeedLevelNearest(p) ==
    IF Len(p) > 60 THEN Some((u8(p, 60) + 15) \div 30) ELSE None

\* fan_speed_level: the level of a raw byte that is exactly a level's value.
FanSpeedLevel(p) ==
    IF Len(p) > 60 /\ u8(p, 60) \in {0, 30, 60, 90, 120}
    THEN Some(u8(p, 60) \div 30) ELSE None

\* A fan byte looked for one byte too far into the buffer.
FanSpeedRawLate(p) == IF Len(p) > 61 THEN Some(u8(p, 60)) ELSE None

\* fan_speed_raw: the byte at offset 60 of a buffer that holds it.
FanSpeedRaw(p) == IF Len(p) > 60 THEN Some(u8(p, 60)) ELSE None

\* A light level that snaps every raw byte to the nearest level.
SnapshotLightLevelNearest(p) ==
    IF Len(p) > 53 THEN Some((u8(p, 53) + 15) \div 30) ELSE None

\* light_level: the level of a raw byte that is exactly a level's value.
SnapshotLightLevel(p) ==
    IF Len(p) > 53 /\ u8(p, 53) \in {0, 30, 60, 90}
    THEN Some(u8(p, 53) \div 30) ELSE None

\* The snapshot from_bytes constructs.  Fields the code scales into floats
\* are kept as exact integers in the unit named on the line.
SensorFields(p) ==
    [ ambient_temperature |-> u16(p, 0) - 5000,        \* 0.01 degC
      surface_temperature |-> u16(p, 2) - 5000,        \* 0.01 degC
      humidity |-> u16(p, 4),                          \* 0.01 %
      ambient_light |-> u16(p, 6),                     \* 1/32
      mounting_height |-> u8(p, 8),
      emf |-> u8(p, 9),
      air_quality_index |-> u16(p, 10),
      particle_index |-> u16(p, 12),                   \* 1/5
      voc_uba |-> u8(p, 14),                           \* 1/20
      co2_ppm |-> u16(p, 15),
      tvoc_ppb |-> u16(p, 17),
      miu_status |-> u32(p, 19),
      voc_status |-> u8(p, 23),
      heat_index |-> u8(p, 24) * 2,
      connected_accessories |-> u8(p, 25),
      battery_level |-> u8(p, 26),
      seconds_since_ok_press |-> u8(p, 27),
      alarm_status |-> u8(p, 28),
      tilt_angle |-> s16(p, 29),
      pitch_angle |-> s16(p, 31),
      device_state |-> u8(p, 33),
      sensor_errors |-> u16(p, 34),
      device_clock |-> u32(p, 36),
      pcu_errors |-> u16(p, 40),
      activity_type |-> u8(p, 43),
      alarm_level |-> u8(p, 44),
      activity_level |-> u8(p, 45),
      power_consumption |-> u16(p, 46),
      blec_command |-> u8(p, 50),
      pcu_lqi |-> s8(p, 51),
      pcu_ed |-> u8(p, 52),
      fan_speed_raw |-> FanSpeedRaw(p),
      fan_speed_level |-> FanSpeedLevel(p),
      fan_auto |-> IF Len(p) > 63 THEN Some(u8(p, 63) = 30) ELSE None,
      light_brightness_raw |-> IF Len(p) > 53 THEN Some(u8(p, 53)) ELSE None,
      light_level |-> SnapshotLightLevel(p),
      light_auto |-> IF Len(p) > 53 THEN Some(u8(p, 53) = 100) ELSE None ]

\* A length check off by one: 53 bytes pass, and the light byte is absent.
FromBytesOffByOne(p) ==
    IF Len(p) < MinSensorLen - 1
    THEN [err |-> "ValueError", value |-> None]
    ELSE [err |-> "none", value |-> Some(SensorFields(p))]

\* SaferaSensorData.from_bytes: raise on a short buffer, else construct.
FromBytes(p) ==
    IF Len(p) < MinSensorLen
    THEN [err |-> "ValueError", value |-> None]
    ELSE [err |-> "none", value |-> Some(SensorFields(p))]

\* The inputs of SpecCodec: every length up to MaxSensorLen, the light, fan
\* and fan-auto bytes drawn from snap points and other values, the rest a
\* fixed pattern of varied bytes.
ProbeBytes == {0, 29, 30, 45, 60, 90, 100, 120, 121}
Filler(i) == (i * 37 + 11) % 256
SensorPayload(n, light, fan, auto) ==
    [i \in 1..n |-> CASE i = 54 -> light
                      [] i = 61 -> fan
                      [] i = 64 -> auto
                      [] OTHER -> Filler(i)]
SensorPayloads ==
    {SensorPayload(n, l, f, a) :
        n \in 0..MaxSensorLen, l \in ProbeBytes, f \in ProbeBytes,
        a \in {0, 30}}

NotDecoded == [err |-> "pending", value |-> None]

InitCodecVars ==
    /\ payload = <<>>
    /\ decoded = NotDecoded

----------------------------------------------------------------------------
(* Session: client.py                                                      *)

CHAR_SENSOR_DATA == "beef"
CHAR_WIFI_SSID == "abd1"
CHAR_MODEL_NAME == "2a24"
CHAR_MANUFACTURER == "2a29"
CHAR_SERIAL_NUMBER == "2a25"
CHAR_HARDWARE_REV == "2a27"
CHAR_FIRMWARE_REV == "2a26"
CHAR_SOFTWARE_REV == "2a28"
CHAR_COMMAND_BABE == "babe"
CHAR_EVENT_LOG == "abcf"
CHAR_DAY_STATISTICS == "abdf"
CHAR_DCV_SENSOR_REPORT == "abd4"

\* One entry of a task's trace: a call into the transport, or a sleep.
Ev(call, char, data) == [call |-> call, char |-> char, data |-> data]
EvEstablish == Ev("establish_connection", "", <<>>)
EvConnect == Ev("connect", "", <<>>)
EvDisconnect == Ev("disconnect", "", <<>>)
EvWrite(char, frame) == Ev("write_gatt_char", char, frame)
EvRead(char) == Ev("read_gatt_char", char, <<>>)
EvStartNotify(char) == Ev("start_notify", char, <<>>)
EvStopNotify(char) == Ev("stop_notify", char, <<>>)
EvSleep(ms) == Ev("sleep", "", <<ms>>)

\* The session is connected: what `self.client and self.client.is_connected`
\* tests.
IsConnected == client # 0 /\ linkUp[client]

\* BleakClient objects nothing refers to any more; establish_connection's
\* new object takes the place of one of them.
FreeIds == {c \in ClientIds :
              c # client /\ ~linkUp[c] /\ \A t \in Tasks : cl[t] # c}
Min(S) == CHOOSE x \in S : \A y \in S : x <= y

\* The pcs at which a characteristic operation (read, write, start_notify)
\* of the task is in flight on the link.
GattPcs == {"write", "boost_write", "day_write", "read", "info_read",
            "subscribing"}
InFlight == {t \in Tasks : pc[t] \in GattPcs}

InitSessionVars ==
    /\ client = 0
    /\ linkUp = [c \in ClientIds |-> FALSE]
    /\ notifying = [c \in ClientIds |-> FALSE]
    /\ callback = "none"
    /\ registered = [o \in Observers |-> 0]
    /\ lastCall = "none"
    /\ inbox = [o \in Observers |-> None]
    /\ handler = [len |-> 0, err |-> "none"]
    /\ pc = [t \in Tasks |-> "idle"]
    /\ op = [t \in Tasks |-> "none"]
    /\ arg = [t \in Tasks |-> <<>>]
    /\ cl = [t \in Tasks |-> 0]
    /\ trace = [t \in Tasks |-> <<>>]
    /\ result = [t \in Tasks |-> "none"]

\* Task t enters method o with argument a.
Enter(t, o, a) ==
    /\ pc[t] = "idle"
    /\ op' = [op EXCEPT ![t] = o]
    /\ arg' = [arg EXCEPT ![t] = a]

\* The call ends (returns or raises) with outcome r, after the trace tr.
Finish(t, r, tr) ==
    /\ pc' = [pc EXCEPT ![t] = "done"]
    /\ result' = [result EXCEPT ![t] = r]
    /\ cl' = [cl EXCEPT ![t] = 0]
    /\ trace' = [trace EXCEPT ![t] = tr]

\* The call suspends at `where`, awaiting transport call ev on object c.
Suspend(t, where, c, ev) ==
    /\ pc' = [pc EXCEPT ![t] = where]
    /\ result' = [result EXCEPT ![t] = "pending"]
    /\ cl' = [cl EXCEPT ![t] = c]
    /\ trace' = [trace EXCEPT ![t] = Append(@, ev)]

\* `await self.client.<call>(...)` with no check before it: None has no such
\* attribute, a closed BleakClient refuses the call, an open one takes it.
Unguarded(t, where, ev) ==
    IF client = 0 THEN Finish(t, "AttributeError", trace[t])
    ELSE IF ~linkUp[client] THEN Finish(t, "BleakError", trace[t])
    ELSE Suspend(t, where, client, ev)

\* `client = self._ensure_client()` and then `await client.<call>(...)`.
Ensured(t, where, ev) ==
    IF ~IsConnected THEN Finish(t, "NotConnected", trace[t])
    ELSE Suspend(t, where, client, ev)

\* The link of BleakClient c closes: the object drops its notify callbacks.
CloseLink(c) ==
    /\ linkUp' = [linkUp EXCEPT ![c] = FALSE]
    /\ notifying' = [notifying EXCEPT ![c] = FALSE]
    /\ registered' = [o \in Observers |->
                        IF registered[o] = c THEN 0 ELSE registered[o]]


\* connect(): establish_connection is awaited.
ConnectCall(t) ==
    /\ Enter(t, "connect", <<>>)
    /\ lastCall' = "connect"
    /\ Suspend(t, "establishing", 0, EvEstablish)
    /\ UNCHANGED <<client, linkUp, notifying, callback, registered, inbox,
                   handler, codecVars>>

\* establish_connection returns a new, connected BleakClient; it is stored
\* in self.client and its connect() is awaited.
ConnectEstablished(t) ==
    /\ pc[t] = "establishing"
    /\ FreeIds # {}
    /\ LET c == Min(FreeIds) IN
        /\ client' = c
        /\ linkUp' = [linkUp EXCEPT ![c] = TRUE]
        /\ Suspend(t, "connecting", c, EvConnect)
    /\ UNCHANGED <<notifying, callback, registered, lastCall, inbox, handler,
                   op, arg, codecVars>>

\* establish_connection gives up (device not found, attempts exhausted).
ConnectFailed(t) ==
    /\ pc[t] = "establishing"
    /\ Finish(t, "BleakError", trace[t])
    /\ UNCHANGED <<sessionVars, op, arg, codecVars>>

\* self.client.connect() on the object that is already connected ends: it
\* returns, or the backend refuses a second connect; the link is untouched.
ConnectDone(t) ==
    /\ pc[t] = "connecting"
    /\ \E r \in {"ok", "BleakError"} : Finish(t, r, trace[t])
    /\ UNCHANGED <<sessionVars, op, arg, codecVars>>

\* A disconnect() that calls the transport whatever the session's state.
DisconnectCallUnguarded(t) ==
    /\ Enter(t, "disconnect", <<>>)
    /\ lastCall' = "disconnect"
    /\ Unguarded(t, "disconnecting", EvDisconnect)
    /\ UNCHANGED <<client, linkUp, notifying, callback, registered, inbox,
                   handler, codecVars>>

\* disconnect(): nothing unless a connected client exists.
DisconnectCall(t) ==
    /\ Enter(t, "disconnect", <<>>)
    /\ lastCall' = "disconnect"
    /\ IF IsConnected
       THEN Suspend(t, "disconnecting", client, EvDisconnect)
       ELSE Finish(t, "ok", trace[t])
    /\ UNCHANGED <<client, linkUp, notifying, callback, registered, inbox,
                   handler, codecVars>>

\* client.disconnect() returns: that object's link is closed.
DisconnectDone(t) ==
    /\ pc[t] = "disconnecting"
    /\ CloseLink(cl[t])
    /\ Finish(t, "ok", trace[t])
    /\ UNCHANGED <<client, callback, lastCall, inbox, handler, op, arg,
                   codecVars>>

\* The radio link of c is lost.
LinkLost(c) ==
    /\ linkUp[c]
    /\ CloseLink(c)
    /\ UNCHANGED <<client, callback, lastCall, inbox, handler, taskVars,
                   codecVars>>

\* The caller takes the outcome; the task is free for its next call.
Return(t) ==
    /\ pc[t] = "done"
    /\ pc' = [pc EXCEPT ![t] = "idle"]
    /\ op' = [op EXCEPT ![t] = "none"]
    /\ arg' = [arg EXCEPT ![t] = <<>>]
    /\ trace' = [trace EXCEPT ![t] = <<>>]
    /\ result' = [result EXCEPT ![t] = "none"]
    /\ UNCHANGED <<sessionVars, cl, codecVars>>

----------------------------------------------------------------------------
(* Commands: set_fan_speed, set_light_level, send_device_command           *)

FanSpeed_OFF == 0
FanSpeed_LEVEL_1 == 1
FanSpeed_LEVEL_2 == 2
FanSpeed_LEVEL_3 == 3
FanSpeed_BOOST == 4
FanSpeed_AUTO == 128
LightLevel_AUTO == 98
SET_DAY_STATISTICS_DAY == 4096

BoostDelayMs == 100
DayStatisticsDelayMs == 200

\* level & FanSpeed.AUTO and level & ~FanSpeed.AUTO, for levels in 0..255.
IsAuto(level) == (level \div FanSpeed_AUTO) % 2 = 1
TargetLevel(level) == IF IsAuto(level) THEN level - FanSpeed_AUTO ELSE level

\* An 8-byte frame with the value right after the two ids.
FramePacked(service, param, value) == <<service, param, value, 0, 0, 0, 0, 0>>

\* [service_id, param_id, 00, 00, value, 00, 00, 00]
Frame(service, param, value) == <<service, param, 0, 0, value, 0, 0, 0>>

\* An intensity table with LEVEL_2 mistyped (0x3D for 0x3C).
IntensityMapTypo == (0 :> 0) @@ (1 :> 30) @@ (2 :> 61) @@ (3 :> 90)

\* intensity_map of set_fan_speed and of set_light_level (the same table).
IntensityMap == (0 :> 0) @@ (1 :> 30) @@ (2 :> 60) @@ (3 :> 90)

AutoFrame == Frame(4, 32, 2)
FanFrame(target) == Frame(1, 32, IntensityMap[target])
LightFrame(level) == Frame(5, 32, IntensityMap[level])

\* The two BOOST frames sent in the wrong order.
BoostFramesSwapped == <<Frame(2, 16, 120), Frame(1, 32, 120)>>

\* speed_payload, then boost_payload.
BoostFrames == <<Frame(1, 32, 120), Frame(2, 16, 120)>>

\* The four bytes of x, most significant first.
BE32(x) == [k \in 1..4 |-> (x \div (256 ^ (4 - k))) % 256]

\* x.to_bytes(4, "little"); for a negative x the bytes of x & 0xFFFFFFFF.
LE32(x) == [k \in 1..4 |-> (x \div (256 ^ (k - 1))) % 256]

\* payload of send_device_command: the opcode, then the parameter.
DeviceCommandFrame(command, param) == LE32(command) \o LE32(param)

\* The arguments the callers pass.
FanArgs == {FanSpeed_OFF, FanSpeed_LEVEL_1, FanSpeed_LEVEL_2,
            FanSpeed_LEVEL_3, FanSpeed_BOOST, 5, FanSpeed_AUTO,
            FanSpeed_AUTO + FanSpeed_BOOST, FanSpeed_AUTO + 5}
\* The fan arguments at the edges of the level table: its last level, a
\* level outside it, and the AUTO bit alone, with BOOST, with a level
\* outside the table.
FanEdgeArgs == {FanSpeed_LEVEL_3, 5, FanSpeed_AUTO,
                FanSpeed_AUTO + FanSpeed_BOOST, FanSpeed_AUTO + 5}
LightArgs == {0, 1, 2, 3, LightLevel_AUTO}
DeviceParams == {0, 1}
DayArgs == {-1, 0, 1}
\* <<opcode, parameter>> of the device commands sent: the day selector with
\* parameters 0, 1, a negative one and the largest positive one of 31 bits,
\* and an opcode and a parameter of several distinct bytes.
DeviceCommandProbes ==
    {<<SET_DAY_STATISTICS_DAY, 0>>, <<SET_DAY_STATISTICS_DAY, 1>>,
     <<SET_DAY_STATISTICS_DAY, -1>>, <<SET_DAY_STATISTICS_DAY, 2147483647>>,
     <<16909060, 258>>}

CommandMethods == {"set_fan_speed", "set_light_level", "send_device_command"}

\* No command call is under way or waiting for its caller.
NoCommandRunning == \A u \in Tasks : op[u] \notin CommandMethods

\* A set_fan_speed that clamps a level outside the table to LEVEL_3.
SetFanSpeedCallClamped(t, level) ==
    /\ Enter(t, "set_fan_speed", <<level>>)
    /\ IF IsAuto(level)
       THEN Unguarded(t, "write", EvWrite(CHAR_COMMAND_BABE, AutoFrame))
       ELSE IF TargetLevel(level) = FanSpeed_BOOST
       THEN Unguarded(t, "boost_write",
                      EvWrite(CHAR_COMMAND_BABE, BoostFrames[1]))
       ELSE IF TargetLevel(level) \notin DOMAIN IntensityMap
       THEN Unguarded(t, "write",
                      EvWrite(CHAR_COMMAND_BABE, FanFrame(FanSpeed_LEVEL_3)))
       ELSE Unguarded(t, "write",
                      EvWrite(CHAR_COMMAND_BABE, FanFrame(TargetLevel(level))))
    /\ UNCHANGED <<sessionVars, codecVars>>

\* A set_fan_speed that tests the level for BOOST before the AUTO bit.
SetFanSpeedCallBoostFirst(t, level) ==
    /\ Enter(t, "set_fan_speed", <<level>>)
    /\ IF TargetLevel(level) = FanSpeed_BOOST
       THEN Unguarded(t, "boost_write",
                      EvWrite(CHAR_COMMAND_BABE, BoostFrames[1]))
       ELSE IF IsAuto(level)
       THEN Unguarded(t, "write", EvWrite(CHAR_COMMAND_BABE, AutoFrame))
       ELSE IF TargetLevel(level) \notin DOMAIN IntensityMap
       THEN Finish(t, "error_logged", trace[t])
       ELSE Unguarded(t, "write",
                      EvWrite(CHAR_COMMAND_BABE, FanFrame(TargetLevel(level))))
    /\ UNCHANGED <<sessionVars, codecVars>>

\* set_fan_speed(level) up to its first await.
SetFanSpeedCall(t, level) ==
    /\ Enter(t, "set_fan_speed", <<level>>)
    /\ IF IsAuto(level)
       THEN Unguarded(t, "write", EvWrite(CHAR_COMMAND_BABE, AutoFrame))
       ELSE IF TargetLevel(level) = FanSpeed_BOOST
       THEN Unguarded(t, "boost_write",
                      EvWrite(CHAR_COMMAND_BABE, BoostFrames[1]))
       ELSE IF TargetLevel(level) \notin DOMAIN IntensityMap
       THEN Finish(t, "error_logged", trace[t])
       ELSE Unguarded(t, "write",
                      EvWrite(CHAR_COMMAND_BABE, FanFrame(TargetLevel(level))))
    /\ UNCHANGED <<sessionVars, codecVars>>

\* The write of speed_payload ends and its failure is swallowed: the sleep
\* and the second frame follow whatever happened to the first.
BoostWriteDoneIgnoresFailure(t) ==
    /\ pc[t] = "boost_write"
    /\ Suspend(t, "boost_sleep", 0, EvSleep(BoostDelayMs))
    /\ UNCHANGED <<sessionVars, op, arg, codecVars>>

\* The write of speed_payload ends; asyncio.sleep(0.1) is awaited.
BoostWriteDone(t) ==
    /\ pc[t] = "boost_write"
    /\ IF linkUp[cl[t]]
       THEN Suspend(t, "boost_sleep", 0, EvSleep(BoostDelayMs))
       ELSE Finish(t, "BleakError", trace[t])
    /\ UNCHANGED <<sessionVars, op, arg, codecVars>>

\* The sleep ends; boost_payload goes to the final write.
BoostSleepDone(t) ==
    /\ pc[t] = "boost_sleep"
    /\ Unguarded(t, "write", EvWrite(CHAR_COMMAND_BABE, BoostFrames[2]))
    /\ UNCHANGED <<sessionVars, op, arg, codecVars>>

\* set_light_level(level) up to its await.
SetLightLevelCall(t, level) ==
    /\ Enter(t, "set_light_level", <<level>>)
    /\ IF level \notin DOMAIN IntensityMap
       THEN Finish(t, "error_logged", trace[t])
       ELSE Unguarded(t, "write",
                      EvWrite(CHAR_COMMAND_BABE, LightFrame(level)))
    /\ UNCHANGED <<sessionVars, codecVars>>

\* send_device_command(command, param) up to its await.
SendDeviceCommandCall(t, command, param) ==
    /\ Enter(t, "send_device_command", <<command, param>>)
    /\ Ensured(t, "write",
               EvWrite(CHAR_COMMAND_BABE, DeviceCommandFrame(command, param)))
    /\ UNCHANGED <<sessionVars, codecVars>>

\* The last write of a command ends: the method returns, or the write
\* fails because the link closed under it.
WriteDone(t) ==
    /\ pc[t] = "write"
    /\ Finish(t, IF linkUp[cl[t]] THEN "ok" ELSE "BleakError", trace[t])
    /\ UNCHANGED <<sessionVars, op, arg, codecVars>>

----------------------------------------------------------------------------
(* Fetches                                                                 *)

MinWifiLen == 75
MinDayStatisticsLen == 16
DcvHeaderLen == 4

FetchChar ==
    ("fetch_sensor_snapshot" :> CHAR_SENSOR_DATA)
    @@ ("fetch_cloud_wifi_status" :> CHAR_WIFI_SSID)
    @@ ("fetch_event_log" :> CHAR_EVENT_LOG)
    @@ ("fetch_dcv_report" :> CHAR_DCV_SENSOR_REPORT)

InfoChars == <<CHAR_MODEL_NAME, CHAR_MANUFACTURER, CHAR_SERIAL_NUMBER,
               CHAR_HARDWARE_REV, CHAR_FIRMWARE_REV, CHAR_SOFTWARE_REV>>

\* Lengths of the payloads the peripheral answers a read with.
ReadLens == {0, 3, 15, 53, 75}

\* How the decoder of a characteristic's payload of n bytes ends.
DecodeOutcome(char, n) ==
    CASE char = CHAR_SENSOR_DATA ->
            IF FromBytes(SensorPayload(n, 30, 60, 30)).err = "none"
            THEN "ok" ELSE "ValueError"
      [] char = CHAR_WIFI_SSID ->
            IF n < MinWifiLen THEN "ValueError" ELSE "ok"
      [] char = CHAR_DAY_STATISTICS ->
            IF n < MinDayStatisticsLen THEN "ValueError" ELSE "ok"
      [] char = CHAR_DCV_SENSOR_REPORT ->
            IF n = 0 THEN "ok_none"
            ELSE IF n < DcvHeaderLen THEN "ValueError" ELSE "ok"
      [] OTHER -> "ok"

LastChar(t) == trace[t][Len(trace[t])].char

\* fetch_sensor_snapshot, fetch_cloud_wifi_status, fetch_event_log and
\* fetch_dcv_report up to the await of their read.
FetchCall(t, o) ==
    /\ Enter(t, o, <<>>)
    /\ Ensured(t, "read", EvRead(FetchChar[o]))
    /\ UNCHANGED <<sessionVars, codecVars>>

\* fetch_day_statistics(day_index) up to the await in send_device_command.
FetchDayStatisticsCall(t, day) ==
    /\ Enter(t, "fetch_day_statistics", <<day>>)
    /\ IF day < 0
       THEN Finish(t, "ValueError", trace[t])
       ELSE Ensured(t, "day_write",
                    EvWrite(CHAR_COMMAND_BABE,
                            DeviceCommandFrame(SET_DAY_STATISTICS_DAY, day)))
    /\ UNCHANGED <<sessionVars, codecVars>>

\* The select write ends and the statistics are read at once, with no wait.
DayWriteDoneNoSleep(t) ==
    /\ pc[t] = "day_write"
    /\ IF linkUp[cl[t]]
       THEN Ensured(t, "read", EvRead(CHAR_DAY_STATISTICS))
       ELSE Finish(t, "BleakError", trace[t])
    /\ UNCHANGED <<sessionVars, op, arg, codecVars>>

\* The select write ends; asyncio.sleep(0.2) is awaited.
DayWriteDone(t) ==
    /\ pc[t] = "day_write"
    /\ IF linkUp[cl[t]]
       THEN Suspend(t, "day_sleep", 0, EvSleep(DayStatisticsDelayMs))
       ELSE Finish(t, "BleakError", trace[t])
    /\ UNCHANGED <<sessionVars, op, arg, codecVars>>

\* The sleep ends; the statistics are read from self.client as it is.
DaySleepDoneUnguarded(t) ==
    /\ pc[t] = "day_sleep"
    /\ Unguarded(t, "read", EvRead(CHAR_DAY_STATISTICS))
    /\ UNCHANGED <<sessionVars, op, arg, codecVars>>

\* The sleep ends; the statistics are read from a client checked anew.
DaySleepDone(t) ==
    /\ pc[t] = "day_sleep"
    /\ Ensured(t, "read", EvRead(CHAR_DAY_STATISTICS))
    /\ UNCHANGED <<sessionVars, op, arg, codecVars>>

\* fetch_device_info() up to the await of its first read.
FetchDeviceInfoCall(t) ==
    /\ Enter(t, "fetch_device_info", <<>>)
    /\ Ensured(t, "info_read", EvRead(InfoChars[1]))
    /\ UNCHANGED <<sessionVars, codecVars>>

\* One of the six identity reads ends; the next is issued on the same
\* local client, and after the last fetch_cloud_wifi_status() is called.
InfoReadDone(t) ==
    /\ pc[t] = "info_read"
    /\ IF ~linkUp[cl[t]]
       THEN Finish(t, "BleakError", trace[t])
       ELSE IF Len(trace[t]) < Len(InfoChars)
       THEN Suspend(t, "info_read", cl[t],
                    EvRead(InfoChars[Len(trace[t]) + 1]))
       ELSE Ensured(t, "read", EvRead(CHAR_WIFI_SSID))
    /\ UNCHANGED <<sessionVars, op, arg, codecVars>>

\* The read of a fetch ends and its payload is decoded.  fetch_dcv_report
\* turns a failed read into "no report".
ReadDone(t) ==
    /\ pc[t] = "read"
    /\ IF ~linkUp[cl[t]]
       THEN Finish(t, IF op[t] = "fetch_dcv_report" THEN "ok_none"
                      ELSE "BleakError", trace[t])
       ELSE \E n \in ReadLens :
                Finish(t, DecodeOutcome(LastChar(t), n), trace[t])
    /\ UNCHANGED <<sessionVars, op, arg, codecVars>>

----------------------------------------------------------------------------
(* Notifications: subscribe_to_sensor_data, _subscribed_handler            *)

\* subscribe_to_sensor_data(callback) up to the await of start_notify.
SubscribeCall(t, o) ==
    /\ Enter(t, "subscribe_to_sensor_data", <<o>>)
    /\ callback' = o
    /\ Unguarded(t, "subscribing", EvStartNotify(CHAR_SENSOR_DATA))
    /\ UNCHANGED <<client, linkUp, notifying, registered, lastCall, inbox,
                   handler, codecVars>>

\* start_notify ends.  On a characteristic that already notifies the
\* backend either takes the handler again or refuses.
SubscribeDone(t) ==
    /\ pc[t] = "subscribing"
    /\ \E r \in (IF ~linkUp[cl[t]] THEN {"BleakError"}
                 ELSE IF notifying[cl[t]] THEN {"ok", "BleakError"}
                 ELSE {"ok"}) :
        /\ Finish(t, r, trace[t])
        /\ notifying' = [notifying EXCEPT ![cl[t]] = @ \/ r = "ok"]
        /\ registered' = [registered EXCEPT ![arg[t][1]] =
                             IF r = "ok" THEN cl[t] ELSE @]
    /\ UNCHANGED <<client, linkUp, callback, lastCall, inbox, handler, op,
                   arg, codecVars>>

\* The frames the peripheral pushes: one a byte short, one complete.
NotifyFrames == {SensorPayload(n, 30, 60, 30) : n \in {53, 64}}

\* _subscribed_handler(characteristic, data): a frame arrives on c.
Notify(c, data) ==
    /\ linkUp[c]
    /\ notifying[c]
    /\ LET parsed_data == FromBytes(data) IN
        /\ handler' = [len |-> Len(data), err |-> parsed_data.err]
        /\ inbox' = [o \in Observers |->
                        IF parsed_data.err = "none" /\ callback = o
                        THEN parsed_data.value ELSE None]
    /\ UNCHANGED <<client, linkUp, notifying, callback, registered, lastCall,
                   taskVars, codecVars>>

----------------------------------------------------------------------------
(* Decoders of client.py: event log, day statistics, DCV report            *)

\* payload[start:stop]: a slice stops at the end of the buffer.
Slice(p, start, stop) ==
    SubSeq(p, Min({start, Len(p)}) + 1, Min({stop, Len(p)}))

EVENT_TYPE_NAMES ==
    [type \in {1, 2, 3, 4, 5, 6, 99, 100, 101, 102, 103, 104, 105, 106, 107,
               -56, -55, -2, -1} |->
        CASE type = 1 -> "COOKING_START"
          [] type = 2 -> "HEATING_START"
          [] type = 3 -> "FRYING_START"
          [] type = 4 -> "BOILING_START"
          [] type = 5 -> "GENERAL_ACTION"
          [] type = 6 -> "STEAK_IN"
          [] type = 99 -> "INVESTIGATING"
          [] type = 100 -> "OK_BUTTON_PRESSED"
          [] type = 101 -> "AUX1_BUTTON_PRESSED"
          [] type = 102 -> "AUX2_BUTTON_PRESSED"
          [] type = 103 -> "MIU_STOVE_ALARM"
          [] type = 104 -> "MIU_STOVE_CUTOFF"
          [] type = 105 -> "MIU_EXTINGUISH_ALARM"
          [] type = 106 -> "MIU_EXTINGUISH_DONE"
          [] type = 107 -> "ALARM_RESUMED"
          [] type = -56 -> "CURRENT_FLOW_START"
          [] type = -55 -> "TEMPERATURE_RISE_START"
          [] type = -2 -> "CLOSED_ROUTINE"
          [] type = -1 -> "ROUTINE"]

EventRecordLen == 5
EventCountLen == 2

\* The entry built from one 5-byte chunk.
EventLogEntry(chunk) ==
    [ event_type |-> s8(chunk, 0),
      event_name |-> IF s8(chunk, 0) \in DOMAIN EVENT_TYPE_NAMES
                     THEN EVENT_TYPE_NAMES[s8(chunk, 0)] ELSE "UNKNOWN",
      timestamp |-> u32(chunk, 1) ]

\* The loop of _parse_event_log_payload: `remaining` iterations are left,
\* the next chunk starts at `offset`.
RECURSIVE ParseEvents(_, _, _, _)
ParseEvents(raw, offset, remaining, entries) ==
    IF remaining = 0 THEN entries
    ELSE LET chunk == Slice(raw, offset, offset + EventRecordLen) IN
         IF Len(chunk) < EventRecordLen THEN entries
         ELSE ParseEvents(raw, offset + EventRecordLen, remaining - 1,
                          Append(entries, EventLogEntry(chunk)))

\* A parser that takes every record the buffer holds, whatever the count
\* prefix declares.
ParseEventLogPayloadIgnoresCount(raw) ==
    IF Len(raw) < EventCountLen THEN [err |-> "none", value |-> <<>>]
    ELSE [err |-> "none",
          value |-> ParseEvents(raw, EventCountLen,
                                (Len(raw) - EventCountLen) \div EventRecordLen,
                                <<>>)]

\* _parse_event_log_payload(raw)
ParseEventLogPayload(raw) ==
    IF Len(raw) < EventCountLen THEN [err |-> "none", value |-> <<>>]
    ELSE [err |-> "none",
          value |-> ParseEvents(raw, EventCountLen, u16(raw, 0), <<>>)]

DcvEntryLen == 15

\* DcvEntry.from_bytes(chunk), for a chunk of at least 15 bytes.
DcvEntryFromBytes(chunk) ==
    [ hub_side_lqi |-> s8(chunk, 0),
      hub_side_ed |-> u8(chunk, 1),
      vent_control_final |-> u8(chunk, 2),
      vent_control_auto |-> u8(chunk, 3),
      motor_1_speed |-> u8(chunk, 4),
      stove_guard_alarm |-> u8(chunk, 5),
      aqi |-> u8(chunk, 6),
      activity |-> u8(chunk, 7),
      rht_comfort_level |-> u8(chunk, 8),
      status_flags |-> u16(chunk, 9),
      error_flags |-> u16(chunk, 11),
      sensor_side_lqi |-> s8(chunk, 13),
      sensor_side_ed |-> u8(chunk, 14) ]

\* The loop of DcvReport.from_bytes.
RECURSIVE DcvEntries(_, _, _, _)
DcvEntries(p, offset, remaining, entries) ==
    IF remaining = 0 THEN entries
    ELSE LET chunk == Slice(p, offset, offset + DcvEntryLen) IN
         IF Len(chunk) < DcvEntryLen THEN entries
         ELSE DcvEntries(p, offset + DcvEntryLen, remaining - 1,
                         Append(entries, DcvEntryFromBytes(chunk)))

\* A decoder without the loop's length check: DcvEntry.from_bytes refuses
\* the short chunk of a missing record.
DcvReportFromBytesStrict(p) ==
    IF Len(p) < DcvHeaderLen \/ Len(p) < DcvHeaderLen + DcvEntryLen * u8(p, 1)
    THEN [err |-> "ValueError", value |-> None]
    ELSE [err |-> "none",
          value |-> Some([ data_version |-> u8(p, 0),
                           entry_count |-> u8(p, 1),
                           flags |-> u16(p, 2),
                           entries |-> DcvEntries(p, DcvHeaderLen, u8(p, 1),
                                                  <<>>) ])]

\* DcvReport.from_bytes(payload)
DcvReportFromBytes(p) ==
    IF Len(p) < DcvHeaderLen
    THEN [err |-> "ValueError", value |-> None]
    ELSE [err |-> "none",
          value |-> Some([ data_version |-> u8(p, 0),
                           entry_count |-> u8(p, 1),
                           flags |-> u16(p, 2),
                           entries |-> DcvEntries(p, DcvHeaderLen, u8(p, 1),
                                                  <<>>) ])]

\* A mean that is reported even when the device sent no data for it.
MeanAlways(raw, value) == Some(value)

\* `None if raw == 0 else value`
MeanOrNone(raw, value) == IF raw = 0 THEN None ELSE Some(value)

\* DayStatistics.from_bytes(payload); the temperature in 0.01 degC, the
\* humidity in 0.01 %.
DayStatisticsFromBytes(p) ==
    IF Len(p) < MinDayStatisticsLen
    THEN [err |-> "ValueError", value |-> None]
    ELSE [err |-> "none",
          value |-> Some(
            [ day_count |-> u16(p, 0),
              temp_ambient_mean |-> MeanOrNone(u16(p, 2), u16(p, 2) - 5000),
              rh_mean |-> MeanOrNone(u16(p, 4), u16(p, 4)),
              aqi_final_mean |-> MeanOrNone(u16(p, 6), u16(p, 6)),
              eco2_mean |-> MeanOrNone(u16(p, 8), u16(p, 8)),
              tvoc_mean |-> MeanOrNone(u16(p, 10), u16(p, 10)),
              particle_index_mean |-> MeanOrNone(u16(p, 12), u16(p, 12)),
              alarm_count |-> u8(p, 14),
              cooking_count |-> u8(p, 15) ])]

\* fetch_dcv_report, the read raising (the characteristic is absent, or the
\* link closed under the read) and the exception turned into an error.
DcvReadFailedRaises(t) ==
    /\ pc[t] = "read"
    /\ op[t] = "fetch_dcv_report"
    /\ Finish(t, "BleakError", trace[t])
    /\ UNCHANGED <<sessionVars, op, arg, codecVars>>

\* fetch_dcv_report: the read raises (the characteristic is absent, or the
\* link closed under the read); the exception is logged, None is returned.
DcvReadFailed(t) ==
    /\ pc[t] = "read"
    /\ op[t] = "fetch_dcv_report"
    /\ Finish(t, "ok_none", trace[t])
    /\ UNCHANGED <<sessionVars, op, arg, codecVars>>

\* fetch_dcv_report: the read returns p; an empty p is "no report", any
\* other is decoded.
DcvReadReturned(t, p) ==
    /\ pc[t] = "read"
    /\ op[t] = "fetch_dcv_report"
    /\ linkUp[cl[t]]
    /\ Finish(t, IF Len(p) = 0 THEN "ok_none"
                 ELSE IF DcvReportFromBytes(p).err = "none" THEN "ok"
                 ELSE "ValueError", trace[t])
    /\ UNCHANGED <<sessionVars, op, arg, codecVars>>

\* ACTIONS-END
----------------------------------------------------------------------------
(* Codec harness                                                           *)

\* A caller hands from_bytes a buffer.
Decode ==
    /\ decoded = NotDecoded
    /\ decoded' = FromBytes(payload)
    /\ UNCHANGED <<payload, sessionVars, taskVars>>

\* The next buffer arrives.
NextPayload ==
    /\ decoded # NotDecoded
    /\ payload' \in SensorPayloads
    /\ decoded' = NotDecoded
    /\ UNCHANGED <<sessionVars, taskVars>>

\* The event-log buffers: every length up to MaxEventLogLen, the count
\* prefix below, at and above the number of records present; the records'
\* types are a known positive one, two known negative ones, an unknown one.
EventCounts == {0, 1, 2, 3, 4, 5, 258}
EventTypeBytes == <<1, 255, 200, 50>>
EventLogPayload(n, count) ==
    [i \in 1..n |->
        CASE i = 1 -> count % 256
          [] i = 2 -> count \div 256
          [] i > 2 /\ (i - 3) % 5 = 0 ->
                EventTypeBytes[(((i - 3) \div 5) % 4) + 1]
          [] OTHER -> Filler(i)]
EventLogPayloads ==
    {EventLogPayload(n, count) : n \in 0..MaxEventLogLen, count \in EventCounts}

\* fetch_event_log hands the buffer it read to the parser.
DecodeEventLog ==
    /\ decoded = NotDecoded
    /\ decoded' = ParseEventLogPayload(payload)
    /\ UNCHANGED <<payload, sessionVars, taskVars>>

\* The DCV buffers: every length up to MaxDcvLen, the entry count below, at
\* and above the number of records present.
DcvCounts == {0, 1, 2, 3, 255}
DcvPayload(n, count) ==
    [i \in 1..n |-> IF i = 2 THEN count ELSE Filler(i)]
DcvPayloads == {DcvPayload(n, count) : n \in 0..MaxDcvLen, count \in DcvCounts}

\* What a read of the DCV characteristic returns to fetch_dcv_report:
\* nothing, less than a header, a report of one entry.
DcvReadPayloads == {DcvPayload(n, 1) : n \in {0, 3, 19}}

\* fetch_dcv_report hands the buffer it read to DcvReport.from_bytes.
DecodeDcvReport ==
    /\ decoded = NotDecoded
    /\ decoded' = DcvReportFromBytes(payload)
    /\ UNCHANGED <<payload, sessionVars, taskVars>>

\* The day-statistics buffers: each of the six means zero, nonzero with a
\* zero low byte, or the raw value of 0.0 degC; both counts zero or not; the
\* buffer empty, cut short by one or two bytes, exact or longer.
MeanRaws == {0, 256, 5000}
CountBytes == {0, 9}
DayStatisticsPayload(n, means, alarm, cooking) ==
    [i \in 1..n |->
        CASE i \in 3..14 -> IF i % 2 = 1 THEN means[(i - 1) \div 2] % 256
                            ELSE means[(i - 2) \div 2] \div 256
          [] i = 15 -> alarm
          [] i = 16 -> cooking
          [] OTHER -> Filler(i)]
DayStatisticsPayloads ==
    {DayStatisticsPayload(n, means, alarm, cooking) :
        n \in {0} \cup (14..MaxDayStatisticsLen),
        means \in [1..6 -> MeanRaws], alarm \in CountBytes,
        cooking \in CountBytes}

\* fetch_day_statistics hands the buffer it read to DayStatistics.from_bytes.
DecodeDayStatistics ==
    /\ decoded = NotDecoded
    /\ decoded' = DayStatisticsFromBytes(payload)
    /\ UNCHANGED <<payload, sessionVars, taskVars>>

----------------------------------------------------------------------------
(* Specifications                                                          *)

Init ==
    /\ InitSessionVars
    /\ InitCodecVars

\* The session with its lifecycle, subscribe calls and one caller of each
\* shape: a single read, a chain of reads, a write, and the two methods
\* that sleep between their transport calls.
Next ==
    \/ \E t \in Tasks : ConnectCall(t)
    \/ \E t \in Tasks : ConnectEstablished(t)
    \/ \E t \in Tasks : ConnectFailed(t)
    \/ \E t \in Tasks : ConnectDone(t)
    \/ \E t \in Tasks : DisconnectCall(t)
    \/ \E t \in Tasks : DisconnectDone(t)
    \/ \E c \in ClientIds : LinkLost(c)
    \/ \E t \in Tasks : SetFanSpeedCall(t, FanSpeed_BOOST)
    \/ \E t \in Tasks : BoostWriteDone(t)
    \/ \E t \in Tasks : BoostSleepDone(t)
    \/ \E t \in Tasks : SetLightLevelCall(t, 1)
    \/ \E t \in Tasks : WriteDone(t)
    \/ \E t \in Tasks : FetchCall(t, "fetch_sensor_snapshot")
    \/ \E t \in Tasks : FetchDayStatisticsCall(t, 0)
    \/ \E t \in Tasks : DayWriteDone(t)
    \/ \E t \in Tasks : DaySleepDone(t)
    \/ \E t \in Tasks : FetchDeviceInfoCall(t)
    \/ \E t \in Tasks : InfoReadDone(t)
    \/ \E t \in Tasks : ReadDone(t)
    \/ \E t \in Tasks, o \in Observers : SubscribeCall(t, o)
    \/ \E t \in Tasks : SubscribeDone(t)
    \/ \E t \in Tasks : Return(t)

Spec == Init /\ [][Next]_vars

\* The subscriptions and the frames pushed to them, with the lifecycle and
\* a polling caller.
NextNotify ==
    \/ \E t \in Tasks : ConnectCall(t)
    \/ \E t \in Tasks : ConnectEstablished(t)
    \/ \E t \in Tasks : ConnectFailed(t)
    \/ \E t \in Tasks : ConnectDone(t)
    \/ \E t \in Tasks : DisconnectCall(t)
    \/ \E t \in Tasks : DisconnectDone(t)
    \/ \E c \in ClientIds : LinkLost(c)
    \/ \E t \in Tasks : FetchCall(t, "fetch_sensor_snapshot")
    \/ \E t \in Tasks : ReadDone(t)
    \/ \E t \in Tasks, o \in Observers : SubscribeCall(t, o)
    \/ \E t \in Tasks : SubscribeDone(t)
    \/ \E c \in ClientIds, data \in NotifyFrames : Notify(c, data)
    \/ \E t \in Tasks : Return(t)

SpecNotify == Init /\ [][NextNotify]_vars

\* The command methods, every argument of theirs, and the lifecycle.
NextCommands ==
    \/ \E t \in Tasks : ConnectCall(t)
    \/ \E t \in Tasks : ConnectEstablished(t)
    \/ \E t \in Tasks : ConnectFailed(t)
    \/ \E t \in Tasks : ConnectDone(t)
    \/ \E t \in Tasks : DisconnectCall(t)
    \/ \E t \in Tasks : DisconnectDone(t)
    \/ \E c \in ClientIds : LinkLost(c)
    \/ \E t \in Tasks, level \in FanArgs : SetFanSpeedCall(t, level)
    \/ \E t \in Tasks : BoostWriteDone(t)
    \/ \E t \in Tasks : BoostSleepDone(t)
    \/ \E t \in Tasks, level \in LightArgs : SetLightLevelCall(t, level)
    \/ \E t \in Tasks, param \in DeviceParams :
          SendDeviceCommandCall(t, SET_DAY_STATISTICS_DAY, param)
    \/ \E t \in Tasks : WriteDone(t)
    \/ \E t \in Tasks : Return(t)

SpecCommands == Init /\ [][NextCommands]_vars

\* The BOOST sequence and a second writer under every lifecycle event.
NextBoost ==
    \/ \E t \in Tasks : ConnectCall(t)
    \/ \E t \in Tasks : ConnectEstablished(t)
    \/ \E t \in Tasks : ConnectFailed(t)
    \/ \E t \in Tasks : ConnectDone(t)
    \/ \E t \in Tasks : DisconnectCall(t)
    \/ \E t \in Tasks : DisconnectDone(t)
    \/ \E c \in ClientIds : LinkLost(c)
    \/ \E t \in Tasks : SetFanSpeedCall(t, FanSpeed_BOOST)
    \/ \E t \in Tasks : BoostWriteDone(t)
    \/ \E t \in Tasks : BoostSleepDone(t)
    \/ \E t \in Tasks : SetLightLevelCall(t, 1)
    \/ \E t \in Tasks : WriteDone(t)
    \/ \E t \in Tasks : Return(t)

SpecBoost == Init /\ [][NextBoost]_vars

\* set_fan_speed with the arguments at the edges of the level table.
NextFan ==
    \/ \E t \in Tasks : ConnectCall(t)
    \/ \E t \in Tasks : ConnectEstablished(t)
    \/ \E t \in Tasks : ConnectFailed(t)
    \/ \E t \in Tasks : ConnectDone(t)
    \/ \E t \in Tasks : DisconnectCall(t)
    \/ \E t \in Tasks : DisconnectDone(t)
    \/ \E c \in ClientIds : LinkLost(c)
    \/ \E t \in Tasks, level \in FanEdgeArgs : SetFanSpeedCall(t, level)
    \/ \E t \in Tasks : WriteDone(t)
    \/ \E t \in Tasks : Return(t)

SpecFan == Init /\ [][NextFan]_vars

\* One caller of each command method: the BOOST sequence, a light level, a
\* device command.
NextWrites ==
    \/ \E t \in Tasks : ConnectCall(t)
    \/ \E t \in Tasks : ConnectEstablished(t)
    \/ \E t \in Tasks : ConnectFailed(t)
    \/ \E t \in Tasks : ConnectDone(t)
    \/ \E t \in Tasks : DisconnectCall(t)
    \/ \E t \in Tasks : DisconnectDone(t)
    \/ \E c \in ClientIds : LinkLost(c)
    \/ \E t \in Tasks : SetFanSpeedCall(t, FanSpeed_BOOST)
    \/ \E t \in Tasks : BoostWriteDone(t)
    \/ \E t \in Tasks : BoostSleepDone(t)
    \/ \E t \in Tasks : SetLightLevelCall(t, 1)
    \/ \E t \in Tasks : SendDeviceCommandCall(t, SET_DAY_STATISTICS_DAY, 1)
    \/ \E t \in Tasks : WriteDone(t)
    \/ \E t \in Tasks : Return(t)

SpecWrites == Init /\ [][NextWrites]_vars

\* Every command with every argument, one command call at a time, under
\* every lifecycle event.
NextFrames ==
    \/ \E t \in Tasks : ConnectCall(t)
    \/ \E t \in Tasks : ConnectEstablished(t)
    \/ \E t \in Tasks : ConnectFailed(t)
    \/ \E t \in Tasks : ConnectDone(t)
    \/ \E t \in Tasks : DisconnectCall(t)
    \/ \E t \in Tasks : DisconnectDone(t)
    \/ \E c \in ClientIds : LinkLost(c)
    \/ \E t \in Tasks, level \in FanArgs :
          NoCommandRunning /\ SetFanSpeedCall(t, level)
    \/ \E t \in Tasks : BoostWriteDone(t)
    \/ \E t \in Tasks : BoostSleepDone(t)
    \/ \E t \in Tasks, level \in LightArgs :
          NoCommandRunning /\ SetLightLevelCall(t, level)
    \/ \E t \in Tasks, c \in DeviceCommandProbes :
          NoCommandRunning /\ SendDeviceCommandCall(t, c[1], c[2])
    \/ \E t \in Tasks : WriteDone(t)
    \/ \E t \in Tasks : Return(t)

SpecFrames == Init /\ [][NextFrames]_vars

\* fetch_dcv_report on a device with or without the DCV characteristic.
NextDcvFetch ==
    \/ \E t \in Tasks : ConnectCall(t)
    \/ \E t \in Tasks : ConnectEstablished(t)
    \/ \E t \in Tasks : ConnectFailed(t)
    \/ \E t \in Tasks : ConnectDone(t)
    \/ \E t \in Tasks : DisconnectCall(t)
    \/ \E t \in Tasks : DisconnectDone(t)
    \/ \E c \in ClientIds : LinkLost(c)
    \/ \E t \in Tasks : FetchCall(t, "fetch_dcv_report")
    \/ \E t \in Tasks : DcvReadFailed(t)
    \/ \E t \in Tasks, p \in DcvReadPayloads : DcvReadReturned(t, p)
    \/ \E t \in Tasks : Return(t)

SpecDcvFetch == Init /\ [][NextDcvFetch]_vars

\* fetch_day_statistics with every day index, under every lifecycle event.
NextDay ==
    \/ \E t \in Tasks : ConnectCall(t)
    \/ \E t \in Tasks : ConnectEstablished(t)
    \/ \E t \in Tasks : ConnectFailed(t)
    \/ \E t \in Tasks : ConnectDone(t)
    \/ \E t \in Tasks : DisconnectCall(t)
    \/ \E t \in Tasks : DisconnectDone(t)
    \/ \E c \in ClientIds : LinkLost(c)
    \/ \E t \in Tasks, day \in DayArgs : FetchDayStatisticsCall(t, day)
    \/ \E t \in Tasks : DayWriteDone(t)
    \/ \E t \in Tasks : DaySleepDone(t)
    \/ \E t \in Tasks : ReadDone(t)
    \/ \E t \in Tasks : Return(t)

SpecDay == Init /\ [][NextDay]_vars

InitCodec ==
    /\ InitSessionVars
    /\ payload \in SensorPayloads
    /\ decoded = NotDecoded

NextCodec ==
    \/ Decode
    \/ NextPayload

SpecCodec == InitCodec /\ [][NextCodec]_vars

\* _parse_event_log_payload applied to bounded event-log buffers.
InitEventLog ==
    /\ InitSessionVars
    /\ payload \in EventLogPayloads
    /\ decoded = NotDecoded

NextEventLog == DecodeEventLog

SpecEventLog == InitEventLog /\ [][NextEventLog]_vars

\* DcvReport.from_bytes applied to bounded DCV buffers.
InitDcv ==
    /\ InitSessionVars
    /\ payload \in DcvPayloads
    /\ decoded = NotDecoded

NextDcv == DecodeDcvReport

SpecDcv == InitDcv /\ [][NextDcv]_vars

\* DayStatistics.from_bytes applied to bounded day-statistics buffers.
InitDayStatistics ==
    /\ InitSessionVars
    /\ payload \in DayStatisticsPayloads
    /\ decoded = NotDecoded

NextDayStatistics == DecodeDayStatistics

SpecDayStatistics == InitDayStatistics /\ [][NextDayStatistics]_vars

----------------------------------------------------------------------------
(* Properties                                                              *)

IsPrefix(s, t) == Len(s) <= Len(t) /\ SubSeq(t, 1, Len(s)) = s

\* What a successful set_fan_speed(BOOST) must have done, byte for byte.
BoostExpected ==
    << EvWrite(CHAR_COMMAND_BABE, <<1, 32, 0, 0, 120, 0, 0, 0>>),
       EvSleep(BoostDelayMs),
       EvWrite(CHAR_COMMAND_BABE, <<2, 16, 0, 0, 120, 0, 0, 0>>) >>

\* C1: set_fan_speed(BOOST) issues its transport calls in the order
\* write 01 20 00 00 78 00 00 00, sleep, write 02 10 00 00 78 00 00 00 and
\* nothing else: at every moment of the call what it has done is a prefix of
\* that sequence, and when the call returns it has done all of it (two
\* writes, the delay between them, none before the first or after the
\* second).
C1_BoostOrder ==
    \A t \in Tasks :
        (op[t] = "set_fan_speed" /\ arg[t] = <<FanSpeed_BOOST>>) =>
            /\ IsPrefix(trace[t], BoostExpected)
            /\ (pc[t] = "done" /\ result[t] = "ok") => trace[t] = BoostExpected

\* C1 witness: a BOOST call returned after both writes and the sleep.
C1_Witness ==
    \E t \in Tasks :
        /\ op[t] = "set_fan_speed" /\ arg[t] = <<FanSpeed_BOOST>>
        /\ pc[t] = "done" /\ result[t] = "ok"
        /\ Len(trace[t]) = 3

\* C2: at most one characteristic operation (read, write, start_notify) is
\* in flight on the session's link at any time.
C2_Serialized == Cardinality(InFlight) <= 1

\* The methods C3 speaks of: every read, write and subscribe of the client.
GattMethods ==
    {"fetch_sensor_snapshot", "fetch_cloud_wifi_status", "fetch_event_log",
     "fetch_day_statistics", "fetch_dcv_report", "fetch_device_info",
     "send_device_command", "set_fan_speed", "set_light_level",
     "subscribe_to_sensor_data"}

\* C3: a read, write or subscribe method called while the session is not
\* connected ends at once with the not-connected error of _ensure_client,
\* having called nothing on the transport.
C3_NotConnectedFailsFast ==
    [][\A t \in Tasks :
          (pc[t] = "idle" /\ pc'[t] # "idle" /\ op'[t] \in GattMethods
           /\ ~IsConnected)
          => (pc'[t] = "done" /\ result'[t] = "NotConnected"
              /\ trace'[t] = <<>>)]_vars

\* C4: a frame too short to decode does not leave _subscribed_handler as
\* an exception; the observer holding the subscription is handed a failure
\* event for it.
C4_DecodeFailureReported ==
    (handler.len > 0 /\ handler.len < MinSensorLen) =>
        /\ handler.err = "none"
        /\ callback # "none" => inbox[callback] # None

\* C5: once disconnect() is the lifecycle method called last and it has
\* returned, the session is not connected, whatever was in flight when it
\* was called.
C5_DisconnectedAfterDisconnect ==
    (/\ lastCall = "disconnect"
     /\ \A t \in Tasks : ~(op[t] = "disconnect" /\ pc[t] = "disconnecting"))
    => ~IsConnected

\* C6: disconnect() called while the session is not connected (no client
\* object, or one whose link is down) returns at once without raising,
\* calls nothing on the transport and leaves the session as it was.
C6_DisconnectNoOp ==
    [][\A t \in Tasks :
          (pc[t] = "idle" /\ pc'[t] # "idle" /\ op'[t] = "disconnect"
           /\ ~IsConnected)
          => (/\ pc'[t] = "done" /\ result'[t] = "ok" /\ trace'[t] = <<>>
              /\ client' = client /\ linkUp' = linkUp
              /\ notifying' = notifying /\ callback' = callback)]_vars

\* C6 witness: disconnect() has returned on a session whose link was lost.
C6_Witness ==
    \E t \in Tasks :
        /\ op[t] = "disconnect" /\ pc[t] = "done" /\ result[t] = "ok"
        /\ trace[t] = <<>>
        /\ client # 0 /\ ~linkUp[client]

\* C7: connect() called while the session is connected establishes no new
\* link: it makes no establish_connection call and leaves self.client, the
\* links and the subscriptions as they are.
C7_ConnectIdempotent ==
    [][\A t \in Tasks :
          (pc[t] = "idle" /\ pc'[t] # "idle" /\ op'[t] = "connect"
           /\ IsConnected)
          => (/\ \A i \in 1..Len(trace'[t]) : trace'[t][i] # EvEstablish
              /\ client' = client /\ linkUp' = linkUp
              /\ notifying' = notifying)]_vars

\* C8: when disconnect() closes a link that has an active subscription, it
\* has attempted stop_notify before its call of client.disconnect().
C8_UnsubscribeBeforeClose ==
    \A t \in Tasks :
        (op[t] = "disconnect" /\ pc[t] = "disconnecting" /\ notifying[cl[t]])
        => \E i, j \in 1..Len(trace[t]) :
              /\ i < j
              /\ trace[t][i] = EvStopNotify(CHAR_SENSOR_DATA)
              /\ trace[t][j] = EvDisconnect

\* C9: once the subscribe calls of both observers A and B have succeeded
\* on a link and none is under way, a frame that decodes on that link is
\* handed to A and to B.
C9_AllObserversReceive ==
    [][\A c \in ClientIds, data \in NotifyFrames :
          (/\ Notify(c, data)
           /\ FromBytes(data).err = "none"
           /\ \A t \in Tasks : pc[t] # "subscribing"
           /\ \A o \in Observers : registered[o] = c)
          => \A o \in Observers : inbox'[o] = FromBytes(data).value]_vars

\* C10: from_bytes on a buffer shorter than 54 bytes ends with the
\* too-short failure and constructs no snapshot.
C10_ShortBufferRejected ==
    (decoded # NotDecoded /\ Len(payload) < 54) =>
        (decoded.err = "ValueError" /\ decoded.value = None)

\* C10 witness: a buffer of 53 bytes has been refused.
C10_Witness ==
    /\ Len(payload) = 53
    /\ decoded.err = "ValueError"

\* C11: in a snapshot decoded from a buffer that holds the fan byte
\* (offset 60), the raw byte is kept as it is; the level is raw / 30 when the
\* raw byte is one of 0, 30, 60, 90, 120 and absent for every other byte.
C11_FanLevelExactOnly ==
    (decoded.err = "none" /\ Len(payload) > 60) =>
        LET raw == payload[61]
            snapshot == decoded.value[1]
        IN  /\ snapshot.fan_speed_raw = <<raw>>
            /\ raw \in {0, 30, 60, 90, 120} =>
                   snapshot.fan_speed_level = <<raw \div 30>>
            /\ raw \notin {0, 30, 60, 90, 120} =>
                   snapshot.fan_speed_level = <<>>

\* C11 witness: a snapshot whose fan byte is 29 keeps 29 and has no level.
C11_Witness ==
    /\ decoded.err = "none"
    /\ Len(payload) > 60
    /\ payload[61] = 29
    /\ decoded.value[1].fan_speed_raw = <<29>>
    /\ decoded.value[1].fan_speed_level = <<>>

\* C12: the event-log parser never raises; for a buffer of n bytes it
\* returns min(declared count, floor((n - 2) / 5)) entries, none when
\* n < 2, and entry i carries the signed type byte and the 32-bit timestamp
\* of the i-th 5-byte record after the count prefix.
C12_EventLogTruncates ==
    decoded # NotDecoded =>
        LET n == Len(payload)
            declared == IF n < 2 THEN 0 ELSE payload[1] + 256 * payload[2]
            present == IF n < 2 THEN 0 ELSE (n - 2) \div 5
            expected == IF declared < present THEN declared ELSE present
            signed(b) == IF b >= 128 THEN b - 256 ELSE b
        IN  /\ decoded.err = "none"
            /\ Len(decoded.value) = expected
            /\ \A i \in 1..expected :
                  LET base == 2 + 5 * (i - 1) IN
                  /\ decoded.value[i].event_type = signed(payload[base + 1])
                  /\ decoded.value[i].timestamp =
                        << payload[base + 2] + 256 * payload[base + 3],
                           payload[base + 4] + 256 * payload[base + 5] >>

\* C12 witness: a buffer declaring 5 events and holding 3 whole records
\* has been parsed into 3 entries.
C12_Witness ==
    /\ Len(payload) = 17
    /\ payload[1] = 5 /\ payload[2] = 0
    /\ decoded.err = "none"
    /\ Len(decoded.value) = 3

\* C13: DcvReport.from_bytes on a buffer of n >= 4 bytes does not fail; the
\* report keeps the declared entry_count (byte 1) and holds
\* min(entry_count, floor((n - 4) / 15)) entries, entry i read from the
\* i-th whole 15-byte record after the header; a trailing partial record
\* gives no entry.
C13_DcvTruncates ==
    (decoded # NotDecoded /\ Len(payload) >= 4) =>
        LET n == Len(payload)
            declared == payload[2]
            present == (n - 4) \div 15
            expected == IF declared < present THEN declared ELSE present
        IN  /\ decoded.err = "none"
            /\ decoded.value[1].entry_count = declared
            /\ Len(decoded.value[1].entries) = expected
            /\ \A i \in 1..expected :
                  LET base == 4 + 15 * (i - 1) IN
                  /\ decoded.value[1].entries[i].hub_side_ed = payload[base + 2]
                  /\ decoded.value[1].entries[i].sensor_side_ed =
                        payload[base + 15]

\* C13 witness: a buffer declaring 3 entries and holding one whole record
\* and a partial one has been decoded into a report of 1 entry.
C13_Witness ==
    /\ Len(payload) = 4 + 15 + 7
    /\ payload[2] = 3
    /\ decoded.err = "none"
    /\ decoded.value[1].entry_count = 3
    /\ Len(decoded.value[1].entries) = 1

\* Where each 16-bit mean of the day statistics starts in the buffer.
MeanOffsets ==
    [ temp_ambient_mean |-> 2, rh_mean |-> 4, aqi_final_mean |-> 6,
      eco2_mean |-> 8, tvoc_mean |-> 10, particle_index_mean |-> 12 ]

\* C14: in decoded day statistics each of the six means is absent exactly
\* when its two raw bytes are both zero, and alarm_count and cooking_count
\* are always the numbers in bytes 14 and 15.
C14_ZeroMeansNoData ==
    decoded.err = "none" =>
        /\ \A f \in DOMAIN MeanOffsets :
              LET raw == payload[MeanOffsets[f] + 1]
                         + 256 * payload[MeanOffsets[f] + 2]
              IN  (raw = 0) <=> (decoded.value[1][f] = <<>>)
        /\ decoded.value[1].alarm_count = payload[15]
        /\ decoded.value[1].cooking_count = payload[16]

\* C14 witness: statistics decoded with no temperature mean, a humidity
\* mean whose raw low byte is zero, and both counts zero.
C14_Witness ==
    /\ decoded.err = "none"
    /\ payload[3] = 0 /\ payload[4] = 0
    /\ payload[5] = 0 /\ payload[6] = 1
    /\ decoded.value[1].temp_ambient_mean = <<>>
    /\ decoded.value[1].rh_mean = <<256>>
    /\ decoded.value[1].alarm_count = 0
    /\ decoded.value[1].cooking_count = 0

\* What fetch_day_statistics(day) must have done when it returns the
\* statistics: the select command 0x1000 with the day index, both as 32-bit
\* little-endian words, the wait, the read.
DayExpected(day) ==
    << EvWrite(CHAR_COMMAND_BABE, <<0, 16, 0, 0, day, 0, 0, 0>>),
       EvSleep(DayStatisticsDelayMs),
       EvRead(CHAR_DAY_STATISTICS) >>

\* C15: fetch_day_statistics(day) issues the select write for that day,
\* then the wait, then one read of the day-statistics characteristic, in
\* that order and nothing else: at every moment what the call has done is a
\* prefix of that sequence, the read is awaited only after the write has
\* completed and the wait has passed, and a call that returns statistics
\* has done all of it.
C15_SelectThenRead ==
    \A t \in Tasks :
        op[t] = "fetch_day_statistics" =>
            /\ IsPrefix(trace[t], DayExpected(arg[t][1]))
            /\ pc[t] = "read" => trace[t] = DayExpected(arg[t][1])
            /\ (pc[t] = "done" /\ result[t] = "ok") =>
                  trace[t] = DayExpected(arg[t][1])

\* C15 witness: fetch_day_statistics(1) returned statistics after the
\* write, the wait and the read.
C15_Witness ==
    \E t \in Tasks :
        /\ op[t] = "fetch_day_statistics" /\ arg[t] = <<1>>
        /\ pc[t] = "done" /\ result[t] = "ok"
        /\ Len(trace[t]) = 3

\* The level bits of a set_fan_speed argument in 0..255, the AUTO bit (128)
\* removed.
LevelBits(level) == IF level >= 128 THEN level - 128 ELSE level

\* The writes among the transport calls of a trace.
Writes(tr) == {i \in 1..Len(tr) : tr[i].call = "write_gatt_char"}

\* The results with which a method returns to its caller without raising:
\* its value, "no report", or nothing after logging an error.
Returned == {"ok", "ok_none", "error_logged"}

\* C16 as stated: a set_fan_speed call whose level bits, the AUTO bit
\* removed, are none of OFF, L1, L2, L3, BOOST issues no write.
C16_NoWriteOutsideTable ==
    \A t \in Tasks :
        (op[t] = "set_fan_speed" /\ LevelBits(arg[t][1]) \notin 0..4) =>
            Writes(trace[t]) = {}

\* C16 amended: a set_fan_speed call whose level has no AUTO bit and is
\* none of OFF, L1, L2, L3, BOOST calls nothing on the transport.
C16_NoWriteOutsideTableNoAuto ==
    \A t \in Tasks :
        (op[t] = "set_fan_speed" /\ arg[t][1] < 128
         /\ arg[t][1] \notin 0..4) =>
            trace[t] = <<>>

\* C16 witness: set_fan_speed(5) has ended on a connected session without
\* a transport call.
C16_Witness ==
    \E t \in Tasks :
        /\ op[t] = "set_fan_speed" /\ arg[t] = <<5>>
        /\ pc[t] = "done" /\ trace[t] = <<>>
        /\ IsConnected

\* C17: a set_fan_speed call with level bits outside the table ends with
\* an error raised to its caller.
C17_InvalidFanLevelRaises ==
    \A t \in Tasks :
        (op[t] = "set_fan_speed" /\ LevelBits(arg[t][1]) \notin 0..4
         /\ pc[t] = "done") =>
            result[t] \notin Returned

\* C18: set_light_level(AUTO) ends with an error raised to its caller and
\* without a write.
C18_LightAutoRaises ==
    \A t \in Tasks :
        (op[t] = "set_light_level" /\ arg[t] = <<98>> /\ pc[t] = "done") =>
            /\ result[t] \notin Returned
            /\ Writes(trace[t]) = {}

\* The one frame of AUTO.
AutoExpected == << EvWrite(CHAR_COMMAND_BABE, <<4, 32, 0, 0, 2, 0, 0, 0>>) >>

\* C19: a set_fan_speed call with the AUTO bit set calls the transport for
\* one write of 04 20 00 00 02 00 00 00 and nothing else, whatever its level
\* bits; when it returns it has written exactly that frame.
C19_AutoSingleFrame ==
    \A t \in Tasks :
        (op[t] = "set_fan_speed" /\ arg[t][1] >= 128) =>
            /\ IsPrefix(trace[t], AutoExpected)
            /\ (pc[t] = "done" /\ result[t] = "ok") => trace[t] = AutoExpected

\* C19 witness: set_fan_speed(AUTO | BOOST) returned after one write.
C19_Witness ==
    \E t \in Tasks :
        /\ op[t] = "set_fan_speed" /\ arg[t] = <<132>>
        /\ pc[t] = "done" /\ result[t] = "ok"
        /\ Len(trace[t]) = 1

\* C20: a command call writes no frame twice and no more frames than its
\* command has (two for BOOST, one otherwise); a write that fails ends the
\* call with an error raised to the caller and nothing more written, so
\* the second BOOST frame never follows a failed first one; a write that
\* cannot be submitted because the session is not connected never ends in
\* success.
C20_NoRetryFailuresSurface ==
    /\ [](\A t \in Tasks :
            op[t] \in CommandMethods =>
                /\ \A i, j \in Writes(trace[t]) :
                      i # j => trace[t][i].data # trace[t][j].data
                /\ Cardinality(Writes(trace[t])) <=
                      (IF op[t] = "set_fan_speed" /\ arg[t] = <<4>>
                       THEN 2 ELSE 1))
    /\ [][\A t \in Tasks :
            /\ (/\ op[t] \in CommandMethods
                /\ pc[t] \in {"write", "boost_write"}
                /\ ~linkUp[cl[t]]
                /\ pc'[t] # pc[t])
               => (/\ pc'[t] = "done"
                   /\ result'[t] \notin Returned
                   /\ trace'[t] = trace[t])
            /\ (/\ op'[t] \in CommandMethods
                /\ pc[t] \in {"idle", "boost_sleep"}
                /\ ~IsConnected
                /\ pc'[t] # pc[t])
               => (/\ pc'[t] = "done"
                   /\ result'[t] # "ok"
                   /\ trace'[t] = trace[t])]_vars

\* C20 witness: a BOOST call whose first write failed has ended with an
\* error after that one write.
C20_Witness ==
    \E t \in Tasks :
        /\ op[t] = "set_fan_speed" /\ arg[t] = <<4>>
        /\ pc[t] = "done" /\ result[t] = "BleakError"
        /\ Cardinality(Writes(trace[t])) = 1

\* C21: a fetch_dcv_report call that found the session connected never ends
\* with a transport error; when its read of the DCV characteristic raises,
\* or returns an empty payload, the call returns "no report".
C21_DcvAbsentIsNoReport ==
    /\ [](\A t \in Tasks :
            (op[t] = "fetch_dcv_report" /\ pc[t] = "done"
             /\ trace[t] # <<>>) => result[t] # "BleakError")
    /\ [][\A t \in Tasks :
            /\ DcvReadFailed(t) => result'[t] = "ok_none"
            /\ DcvReadReturned(t, <<>>) => result'[t] = "ok_none"]_vars

\* C21 witness: fetch_dcv_report returned "no report" after its read, on a
\* link that is still up.
C21_Witness ==
    \E t \in Tasks :
        /\ op[t] = "fetch_dcv_report"
        /\ pc[t] = "done" /\ result[t] = "ok_none"
        /\ trace[t] = <<EvRead(CHAR_DCV_SENSOR_REPORT)>>
        /\ IsConnected

\* C22: the value byte (offset 4) of the frame a set_fan_speed call writes
\* for a level in OFF, L1, L2, L3, read back as the fan byte of a sensor
\* payload, decodes to that level.
C22_FanLevelRoundTrip ==
    \A t \in Tasks :
        (op[t] = "set_fan_speed" /\ arg[t][1] \in 0..3) =>
            \A i \in Writes(trace[t]) :
                LET value == trace[t][i].data[5]
                    snapshot == FromBytes(SensorPayload(64, 0, value, 0))
                IN  /\ snapshot.err = "none"
                    /\ snapshot.value[1].fan_speed_raw = <<value>>
                    /\ snapshot.value[1].fan_speed_level = <<arg[t][1]>>

\* C22 witness: set_fan_speed(LEVEL_2) has written its frame and returned.
C22_Witness ==
    \E t \in Tasks :
        /\ op[t] = "set_fan_speed" /\ arg[t] = <<2>>
        /\ pc[t] = "done" /\ result[t] = "ok"
        /\ Len(trace[t]) = 1
        /\ trace[t][1].call = "write_gatt_char"

\* C23: every frame a set_fan_speed or set_light_level call writes has 8
\* bytes, zero at offsets 2, 3, 5, 6, 7; for fan levels OFF..L3 it is
\* 01 20 00 00 (30 * level) 00 00 00 and for light levels OFF..L3 it is
\* 05 20 00 00 (30 * level) 00 00 00.
C23_FrameLayout ==
    \A t \in Tasks :
        op[t] \in {"set_fan_speed", "set_light_level"} =>
            \A i \in Writes(trace[t]) :
                LET frame == trace[t][i].data IN
                /\ Len(frame) = 8
                /\ \A k \in {3, 4, 6, 7, 8} : frame[k] = 0
                /\ (op[t] = "set_fan_speed" /\ arg[t][1] \in 0..3) =>
                      frame = <<1, 32, 0, 0, 30 * arg[t][1], 0, 0, 0>>
                /\ (op[t] = "set_light_level" /\ arg[t][1] \in 0..3) =>
                      frame = <<5, 32, 0, 0, 30 * arg[t][1], 0, 0, 0>>

\* C23 witness: set_light_level(LEVEL_2) has returned after writing
\* 05 20 00 00 3C 00 00 00.
C23_Witness ==
    \E t \in Tasks :
        /\ op[t] = "set_light_level" /\ arg[t] = <<2>>
        /\ pc[t] = "done" /\ result[t] = "ok"
        /\ trace[t] = <<EvWrite(CHAR_COMMAND_BABE, <<5, 32, 0, 0, 60, 0, 0, 0>>)>>

\* The frames of the device commands sent, byte by byte: the opcode and
\* the parameter modulo 2^32, each as 4 little-endian bytes.
DeviceExpected(command, param) ==
    (IF command = 4096 THEN <<0, 16, 0, 0>> ELSE <<4, 3, 2, 1>>)
    \o (CASE param = 0 -> <<0, 0, 0, 0>>
          [] param = 1 -> <<1, 0, 0, 0>>
          [] param = -1 -> <<255, 255, 255, 255>>
          [] param = 2147483647 -> <<255, 255, 255, 127>>
          [] param = 258 -> <<2, 1, 0, 0>>)

\* C24: a send_device_command call writes at most one frame, and exactly
\* one when it returns; the frame has 8 bytes: the opcode as 4
\* little-endian bytes, then the parameter modulo 2^32 as 4 little-endian
\* bytes (FF FF FF FF for -1).
C24_DeviceCommandFrame ==
    \A t \in Tasks :
        op[t] = "send_device_command" =>
            /\ Len(trace[t]) <= 1
            /\ (pc[t] = "done" /\ result[t] = "ok") => Len(trace[t]) = 1
            /\ \A i \in 1..Len(trace[t]) :
                  /\ trace[t][i].call = "write_gatt_char"
                  /\ Len(trace[t][i].data) = 8
                  /\ trace[t][i].data = DeviceExpected(arg[t][1], arg[t][2])

\* C24 witness: send_device_command(0x1000, -1) has returned after its
\* write.
C24_Witness ==
    \E t \in Tasks :
        /\ op[t] = "send_device_command" /\ arg[t] = <<4096, -1>>
        /\ pc[t] = "done" /\ result[t] = "ok"
        /\ Len(trace[t]) = 1

\* Call t has submitted the frame it is about and not yet the transport
\* call that follows it: it awaits the write (on the session's current
\* client) or the sleep after it.
Between(t, writing, sleeping) ==
    \/ pc[t] = writing /\ cl[t] = client
    \/ pc[t] = sleeping

\* Call u submits a write to the command pipe in this step.
SubmitsWrite(u) ==
    /\ Len(trace'[u]) = Len(trace[u]) + 1
    /\ trace'[u][Len(trace'[u])].call = "write_gatt_char"
    /\ trace'[u][Len(trace'[u])].char = CHAR_COMMAND_BABE

\* C25: while a set_fan_speed(BOOST) call is between its max-speed frame
\* and its boost-activate frame, no other call submits a write to the
\* command pipe.
C25_BoostFramesAdjacent ==
    [][\A t \in Tasks : \A u \in Tasks \ {t} :
          (op[t] = "set_fan_speed" /\ Between(t, "boost_write", "boost_sleep"))
              => ~SubmitsWrite(u)]_vars

\* C26: while a fetch_day_statistics call is between its select write and
\* its read, no other fetch_day_statistics call submits a select write for
\* a different day.
C26_DaySelectionHeld ==
    [][\A t \in Tasks : \A u \in Tasks \ {t} :
          (op[t] = "fetch_day_statistics"
           /\ Between(t, "day_write", "day_sleep"))
              => ~(/\ SubmitsWrite(u)
                   /\ op'[u] = "fetch_day_statistics"
                   /\ arg'[u] # arg[t])]_vars

C28_OptionalByLengthOnly ==
    decoded # NotDecoded =>
        /\ Len(payload) >= 54 => decoded.err = "none"
        /\ decoded.err = "none" =>
              LET snapshot == decoded.value[1] IN
              /\ snapshot.fan_speed_raw = None <=> Len(payload) <= 60
              /\ snapshot.fan_speed_level = None <=> Len(payload) <= 60
              /\ snapshot.fan_auto = None <=> Len(payload) <= 63
              /\ snapshot.light_brightness_raw # None
              /\ snapshot.light_auto # None

\* C28, amended: as above, but fan_speed_level is None exactly when the
\* buffer has 60 bytes or fewer or its fan byte is none of 0, 30, 60, 90,
\* 120.
C28_OptionalByLengthAndFanByte ==
    decoded # NotDecoded =>
        /\ Len(payload) >= 54 => decoded.err = "none"
        /\ decoded.err = "none" =>
              LET snapshot == decoded.value[1] IN
              /\ snapshot.fan_speed_raw = None <=> Len(payload) <= 60
              /\ snapshot.fan_speed_level = None <=>
                    (\/ Len(payload) <= 60
                     \/ payload[61] \notin {0, 30, 60, 90, 120})
              /\ snapshot.fan_auto = None <=> Len(payload) <= 63
              /\ snapshot.light_brightness_raw # None
              /\ snapshot.light_auto # None

\* C28 witness: a snapshot of 61 bytes whose fan byte is 45 has the raw
\* byte, no level and no fan_auto.
C28_Witness ==
    /\ decoded.err = "none"
    /\ Len(payload) = 61
    /\ payload[61] = 45
    /\ decoded.value[1].fan_speed_raw = <<45>>
    /\ decoded.value[1].fan_speed_level = None
    /\ decoded.value[1].fan_auto = None

\* C29: in every decoded snapshot light_auto is true exactly when the raw
\* light byte (offset 53) is 100; light_level is one of 0..3 exactly when
\* the raw byte is one of 0, 30, 60, 90, and is then raw / 30; so a
\* snapshot with light_auto true has no light_level.
C29_LightAutoNeverALevel ==
    decoded.err = "none" =>
        LET raw == payload[54]
            snapshot == decoded.value[1]
        IN  /\ snapshot.light_brightness_raw = <<raw>>
            /\ snapshot.light_auto = <<raw = 100>>
            /\ snapshot.light_level \in {None} \cup {<<k>> : k \in 0..3}
            /\ snapshot.light_level # None <=> raw \in {0, 30, 60, 90}
            /\ raw \in {0, 30, 60, 90} =>
                  snapshot.light_level = <<raw \div 30>>
            /\ snapshot.light_auto = <<TRUE>> => snapshot.light_level = None

\* C29 witness: a snapshot whose light byte is 100 is in AUTO and has no
\* level.
C29_Witness ==
    /\ decoded.err = "none"
    /\ payload[54] = 100
    /\ decoded.value[1].light_auto = <<TRUE>>
    /\ decoded.value[1].light_level = None

====
